---- MODULE Spec2Model ----
(***************************************************************************)
(* Model of src/src/view_paper.py: one activation of papers_view over the  *)
(* relations papers and paper_assessments.                                 *)
(*                                                                         *)
(* Strings that the code slices or searches (titles, labels) are sequences *)
(* of one-character strings.  An integer cell (publication_year,           *)
(* assessment_date) is <<>> when missing and <<v>> otherwise.  A flag or   *)
(* text cell is a string: "NULL" in the store, and "None" or "NaN" in a    *)
(* dataframe, as pandas represents a missing value of an object column     *)
(* and of a float column.  Columns the code only prints (doi, authors,     *)
(* venue, volume, summary, takeaways, ...) are left out of the rows.       *)
(***************************************************************************)
EXTENDS Integers, Sequences, FiniteSets, TLC

VARIABLES
    papers,                 \* relation papers, by id
    paper_assessments,      \* relation paper_assessments (set of rows)
    filters,                \* argument of papers_view: <<>> is None, <<f>> a dict
    pc,                     \* position in papers_view
    conn,                   \* the sqlite3 connection: "none", "open", "closed"
    pdf_file,               \* the PDF file handle: "none", "open", "closed"
    papers_df,              \* table returned by load_paper_details
    filtered_df,            \* table after apply_filters
    paper_options,          \* labels offered by the selectbox
    selected_index,         \* position the user picked in paper_options
    selected_paper_title,   \* label returned by the selectbox
    paper,                  \* <<>> or <<row>>: the row the selector located
    metrics,                \* <<>> or <<m>>: values shown by st.metric
    messages,               \* what st.error / st.warning / st.info reported
    trace,                  \* steps of papers_view reached, in order
    export                  \* <<>> or <<e>>: the CSV download offered

vars == <<papers, paper_assessments, filters, pc, conn, pdf_file, papers_df,
          filtered_df, paper_options, selected_index, selected_paper_title,
          paper, metrics, messages, trace, export>>

----------------------------------------------------------------------------
(* Bounds and program constants *)

MaxPapers == 2

TitleLimit == 100

NULL == "NULL"
Absent == <<>>

----------------------------------------------------------------------------
(* Strings as sequences of characters *)

Pad(n) == [i \in 1..n |-> "a"]

StartsWith(s, p) == Len(p) <= Len(s) /\ SubSeq(s, 1, Len(p)) = p

\* index of the first occurrence of pat in s, 0 when there is none
Find(s, pat) ==
    LET hits == {i \in 1..(Len(s) - Len(pat) + 1) :
                    SubSeq(s, i, i + Len(pat) - 1) = pat}
    IN  IF hits = {} THEN 0 ELSE CHOOSE i \in hits : \A j \in hits : i <= j

Ellipsis == <<".", ".", ".">>
StatusClose == <<"]", " ">>

\* s.split(sep, 1)[1]; ok is FALSE when sep is not in s and the index
\* raises IndexError
SplitTail(s, sep) ==
    LET i == Find(s, sep)
    IN  IF i = 0 THEN [ok |-> FALSE, value |-> <<>>]
        ELSE [ok |-> TRUE, value |-> SubSeq(s, i + Len(sep), Len(s))]

\* s.split(sep)[0]
SplitHead(s, sep) ==
    LET i == Find(s, sep)
    IN  IF i = 0 THEN s ELSE SubSeq(s, 1, i - 1)

StatusChars(status) ==
    CASE status = "Unassessed" ->
            <<"U", "n", "a", "s", "s", "e", "s", "s", "e", "d">>
      [] status = "Neurosymbolic" ->
            <<"N", "e", "u", "r", "o", "s", "y", "m", "b", "o", "l", "i", "c">>
      [] OTHER -> <<"O", "t", "h", "e", "r">>

----------------------------------------------------------------------------
(* load_paper_details: the query and its conversion to a dataframe *)

\* SQLite compares NULL as smaller than every value
SqlLess(a, b) == (a = <<>> /\ b # <<>>) \/ (a # <<>> /\ b # <<>> /\ a[1] < b[1])

\* plausible slip: the first WHEN tests the flag, not the joined key
AssessmentStatusByFlag(a_paper_id, a_is_neurosymbolic) ==
    IF a_is_neurosymbolic = NULL THEN "Unassessed"
    ELSE IF a_is_neurosymbolic = "1" THEN "Neurosymbolic"
    ELSE "Other"

\* the CASE expression of the query, on the joined a.paper_id and
\* a.is_neurosymbolic
AssessmentStatus(a_paper_id, a_is_neurosymbolic) ==
    IF a_paper_id = <<>> THEN "Unassessed"
    ELSE IF a_is_neurosymbolic = "1" THEN "Neurosymbolic"
    ELSE "Other"

\* one result row of papers p LEFT JOIN paper_assessments a
JoinedRow(p, a_paper_id, a) ==
    [id                |-> p.id,
     title             |-> p.title,
     publication_year  |-> p.publication_year,
     file_path         |-> p.file_path,
     is_neurosymbolic  |-> a.is_neurosymbolic,
     is_development    |-> a.is_development,
     paper_type        |-> a.paper_type,
     assessment_date   |-> a.assessment_date,
     assessment_status |-> AssessmentStatus(a_paper_id, a.is_neurosymbolic)]

NullAssessment ==
    [is_neurosymbolic |-> NULL, is_development |-> NULL,
     paper_type |-> NULL, assessment_date |-> <<>>]

\* FROM papers p LEFT JOIN paper_assessments a ON p.id = a.paper_id
LeftJoin(ps, as) ==
    UNION { LET m == {a \in as : a.paper_id = ps[i].id}
            IN  IF m = {} THEN {JoinedRow(ps[i], <<>>, NullAssessment)}
                ELSE {JoinedRow(ps[i], <<a.paper_id>>, a) : a \in m}
          : i \in 1..Len(ps) }

\* ORDER BY a.assessment_date DESC, p.publication_year DESC: r1 sorts
\* strictly before r2
SortsBefore(r1, r2) ==
    \/ SqlLess(r2.assessment_date, r1.assessment_date)
    \/ /\ r1.assessment_date = r2.assessment_date
       /\ SqlLess(r2.publication_year, r1.publication_year)

\* every order of the rows the ORDER BY clause allows (ties are the
\* engine's choice)
OrderBy(rows) ==
    LET n == Cardinality(rows)
    IN  {s \in [1..n -> rows] :
            /\ \A i, j \in 1..n : i # j => s[i] # s[j]
            /\ \A i, j \in 1..n : i < j => ~SortsBefore(s[j], s[i])}

\* pandas' inference for a column of integer flags: with at least one
\* integer the column is float64 and NULL becomes NaN; a column of NULLs
\* only stays an object column of None
FlagCell(v, column) ==
    IF v # NULL THEN v
    ELSE IF \E w \in column : w # NULL THEN "NaN" ELSE "None"

\* a text column is an object column: NULL becomes None
TextCell(v) == IF v = NULL THEN "None" ELSE v

\* pd.read_sql_query's dataframe of the result rows
ToFrame(rs) ==
    LET neuro == {rs[i].is_neurosymbolic : i \in 1..Len(rs)}
        dev   == {rs[i].is_development : i \in 1..Len(rs)}
    IN  [i \in 1..Len(rs) |->
            [rs[i] EXCEPT
                !.file_path        = TextCell(@),
                !.paper_type       = TextCell(@),
                !.is_neurosymbolic = FlagCell(@, neuro),
                !.is_development   = FlagCell(@, dev)]]

\* the tables load_paper_details can return for a store's contents
load_paper_details(ps, as) == {ToFrame(rs) : rs \in OrderBy(LeftJoin(ps, as))}

\* pd.isna / pd.notna on a flag or text cell
IsNa(v) == v \in {"None", "NaN"}

----------------------------------------------------------------------------
(* apply_filters *)

\* df[mask] is SelectSeq(df, Keep): the rows that satisfy the mask, in
\* their order.

\* filters.get(key) is truthy: the key is present and its value is neither
\* an empty list nor an empty string
TruthyYears(f) == f.years # Absent /\ f.years[1] # {}
TruthyText(v) == v # Absent /\ v[1] # ""

YearIsIn(r, years) ==
    r.publication_year # <<>> /\ r.publication_year[1] \in years

filter_years(fdf, f) ==
    IF TruthyYears(f)
    THEN LET Keep(r) == YearIsIn(r, f.years[1]) IN SelectSeq(fdf, Keep)
    ELSE fdf

filter_paper_type(fdf, f) ==
    IF TruthyText(f.paper_type) /\ f.paper_type[1] # "All"
    THEN LET Keep(r) == r.paper_type = f.paper_type[1] /\ ~IsNa(r.paper_type)
         IN  SelectSeq(fdf, Keep)
    ELSE fdf

filter_focus(fdf, f) ==
    IF TruthyText(f.focus) /\ f.focus[1] # "All"
    THEN IF f.focus[1] = "Neurosymbolic"
         THEN LET Keep(r) == r.assessment_status = "Neurosymbolic"
              IN  SelectSeq(fdf, Keep)
         ELSE LET Keep(r) == r.assessment_status \in {"Unassessed", "Other"}
              IN  SelectSeq(fdf, Keep)
    ELSE fdf

\* plausible slip: "No" forgets the rows whose flag is missing
filter_development_no_isna(fdf, f) ==
    IF TruthyText(f.development) /\ f.development[1] # "All"
    THEN IF f.development[1] = "Yes"
         THEN LET Keep(r) == r.is_development = "1" IN SelectSeq(fdf, Keep)
         ELSE LET Keep(r) == r.is_development = "0" IN SelectSeq(fdf, Keep)
    ELSE fdf

filter_development(fdf, f) ==
    IF TruthyText(f.development) /\ f.development[1] # "All"
    THEN IF f.development[1] = "Yes"
         THEN LET Keep(r) == r.is_development = "1" IN SelectSeq(fdf, Keep)
         ELSE LET Keep(r) == r.is_development = "0" \/ IsNa(r.is_development)
              IN  SelectSeq(fdf, Keep)
    ELSE fdf

\* plausible slip: the development mask indexes df, not filtered_df
apply_filters_dev_on_df(df, f) ==
    LET f3 == filter_focus(filter_paper_type(filter_years(df, f), f), f)
    IN  [df |-> df,
         ret |-> IF TruthyText(f.development) /\ f.development[1] # "All"
                 THEN filter_development(df, f) ELSE f3]

\* plausible slip: "if 'years' in filters" instead of a truthiness test
apply_filters_years_present(df, f) ==
    LET Keep(r) == YearIsIn(r, f.years[1])
        f1 == IF f.years # Absent THEN SelectSeq(df, Keep) ELSE df
    IN  [df |-> df,
         ret |-> filter_development(filter_focus(filter_paper_type(f1, f), f), f)]

\* plausible slip: no df.copy(), rows dropped from the argument in place
apply_filters_in_place(df, f) ==
    LET out == filter_development(
                 filter_focus(filter_paper_type(filter_years(df, f), f), f), f)
    IN  [df |-> out, ret |-> out]

\* apply_filters(df, filters): ret is the table returned, df the caller's
\* table after the call (the code works on df.copy())
apply_filters(df, f) ==
    LET filtered_0 == df
        filtered_1 == filter_years(filtered_0, f)
        filtered_2 == filter_paper_type(filtered_1, f)
        filtered_3 == filter_focus(filtered_2, f)
        filtered_4 == filter_development(filtered_3, f)
    IN  [df |-> df, ret |-> filtered_4]

\* "if filters:" in papers_view: neither None nor an empty dict
TruthyFilters(fs) ==
    /\ fs # <<>>
    /\ \/ fs[1].years # Absent
       \/ fs[1].paper_type # Absent
       \/ fs[1].focus # Absent
       \/ fs[1].development # Absent

----------------------------------------------------------------------------
(* The selector and the detail renderer *)

format_paper_title(row) ==
    LET status == <<"[">> \o StatusChars(row.assessment_status) \o StatusClose
        title  == IF Len(row.title) > TitleLimit
                  THEN SubSeq(row.title, 1, TitleLimit) \o Ellipsis
                  ELSE row.title
    IN  status \o title

\* selected_paper_title.split('] ', 1)[1].split('...')[0]
original_title(label) ==
    LET tail == SplitTail(label, StatusClose)
    IN  [ok |-> tail.ok, value |-> SplitHead(tail.value, Ellipsis)]

\* filtered_df[filtered_df['title'].str.startswith(original_title)]
TitleMatches(df, prefix) ==
    LET Keep(r) == StartsWith(r.title, prefix) IN SelectSeq(df, Keep)

\* Python truth value of a flag cell: 0 and None are false; 1 and NaN are true
Truthy(v) == v \notin {"0", "None"}

YesNo(v) == IF Truthy(v) THEN "Yes" ELSE "No"

\* the three st.metric calls of display_paper_details
AssessmentMetrics(row) ==
    [neurosymbolic |-> YesNo(row.is_neurosymbolic),
     development   |-> YesNo(row.is_development),
     paper_type    |-> row.paper_type]

----------------------------------------------------------------------------
(* papers_view, step by step *)

Say(m) == messages' = Append(messages, m)
Reach(step) == trace' = Append(trace, step)

\* get_connection() itself raises sqlite3.OperationalError: caught by
\* papers_view, st.error then st.stop()
LoadConnectError ==
    /\ pc = "start"
    /\ Say("error: database")
    /\ pc' = "stopped"
    /\ UNCHANGED <<papers, paper_assessments, filters, conn, pdf_file,
                   papers_df, filtered_df, paper_options, selected_index,
                   selected_paper_title, paper, metrics, trace, export>>

\* the query raises: sqlite3.OperationalError is caught (st.error, then
\* st.stop()); any other exception leaves papers_view uncaught
LoadQueryError ==
    /\ pc = "start"
    /\ conn' = "open"
    /\ \E caught \in BOOLEAN :
          IF caught
          THEN Say("error: database") /\ pc' = "stopped"
          ELSE Say("exception: load") /\ pc' = "raised"
    /\ UNCHANGED <<papers, paper_assessments, filters, pdf_file,
                   papers_df, filtered_df, paper_options, selected_index,
                   selected_paper_title, paper, metrics, trace, export>>

\* load_paper_details returns a table
LoadOk ==
    /\ pc = "start"
    /\ conn' = "open"
    /\ papers_df' \in load_paper_details(papers, paper_assessments)
    /\ Reach("load")
    /\ pc' = "loaded"
    /\ UNCHANGED <<papers, paper_assessments, filters, pdf_file,
                   filtered_df, paper_options, selected_index,
                   selected_paper_title, paper, metrics, messages, export>>

\* No statement of the code closes the connection.  Once load_paper_details
\* has returned or raised, the runtime may finalize the unreferenced
\* connection object, at a time of its choosing or never.
FinalizeConnection ==
    /\ conn = "open"
    /\ conn' = "closed"
    /\ UNCHANGED <<papers, paper_assessments, filters, pc, pdf_file,
                   papers_df, filtered_df, paper_options, selected_index,
                   selected_paper_title, paper, metrics, messages, trace,
                   export>>

\* plausible slip: the warning is given but st.stop() is forgotten
EmptyTableNoStop ==
    /\ pc = "loaded"
    /\ papers_df = <<>>
    /\ Say("warning: no papers found")
    /\ pc' = "nonempty"
    /\ UNCHANGED <<papers, paper_assessments, filters, conn, pdf_file,
                   papers_df, filtered_df, paper_options, selected_index,
                   selected_paper_title, paper, metrics, trace, export>>

\* if papers_df.empty: st.warning, st.stop()
EmptyTable ==
    /\ pc = "loaded"
    /\ papers_df = <<>>
    /\ Say("warning: no papers found")
    /\ pc' = "stopped"
    /\ UNCHANGED <<papers, paper_assessments, filters, conn, pdf_file,
                   papers_df, filtered_df, paper_options, selected_index,
                   selected_paper_title, paper, metrics, trace, export>>

NonEmptyTable ==
    /\ pc = "loaded"
    /\ papers_df # <<>>
    /\ pc' = "nonempty"
    /\ UNCHANGED <<papers, paper_assessments, filters, conn, pdf_file,
                   papers_df, filtered_df, paper_options, selected_index,
                   selected_paper_title, paper, metrics, messages, trace,
                   export>>

\* filtered_df = apply_filters(papers_df, filters) if filters, else
\* papers_df; st.info with the counts if filters
ApplyFiltersStep ==
    /\ pc = "nonempty"
    /\ IF TruthyFilters(filters)
       THEN LET call == apply_filters(papers_df, filters[1])
            IN  /\ papers_df' = call.df
                /\ filtered_df' = call.ret
                /\ Say("info: showing n of m")
       ELSE /\ filtered_df' = papers_df
            /\ UNCHANGED <<papers_df, messages>>
    /\ Reach("filter")
    /\ pc' = "filtered"
    /\ UNCHANGED <<papers, paper_assessments, filters, conn, pdf_file,
                   paper_options, selected_index, selected_paper_title,
                   paper, metrics, export>>

\* if filtered_df.empty: st.warning, return
NoMatch ==
    /\ pc = "filtered"
    /\ filtered_df = <<>>
    /\ Say("warning: no papers match")
    /\ pc' = "returned"
    /\ UNCHANGED <<papers, paper_assessments, filters, conn, pdf_file,
                   papers_df, filtered_df, paper_options, selected_index,
                   selected_paper_title, paper, metrics, trace, export>>

\* paper_options = filtered_df.apply(format_paper_title, axis=1).tolist()
\* and the st.selectbox over them: the user's pick is any option
SelectBox ==
    /\ pc = "filtered"
    /\ filtered_df # <<>>
    /\ paper_options' =
          [i \in 1..Len(filtered_df) |-> format_paper_title(filtered_df[i])]
    /\ \E i \in 1..Len(filtered_df) :
          /\ selected_index' = i
          /\ selected_paper_title' = paper_options'[i]
    /\ Reach("select")
    /\ pc' = "selected"
    /\ UNCHANGED <<papers, paper_assessments, filters, conn, pdf_file,
                   papers_df, filtered_df, paper, metrics, messages, export>>

\* original_title = ...; paper = filtered_df[...startswith...].iloc[0]
\* (a label is never empty, so "if selected_paper_title" passes)
LocatePaper ==
    /\ pc = "selected"
    /\ LET prefix == original_title(selected_paper_title)
           found  == TitleMatches(filtered_df, prefix.value)
       IN  IF prefix.ok /\ found # <<>>
           THEN /\ paper' = <<found[1]>>
                /\ pc' = "located"
                /\ UNCHANGED messages
           ELSE /\ Say("exception: select")
                /\ pc' = "raised"
                /\ UNCHANGED paper
    /\ UNCHANGED <<papers, paper_assessments, filters, conn, pdf_file,
                   papers_df, filtered_df, paper_options, selected_index,
                   selected_paper_title, metrics, trace, export>>

\* display_paper_details up to the PDF part
DisplayDetails ==
    /\ pc = "located"
    /\ metrics' = <<AssessmentMetrics(paper[1])>>
    /\ Reach("detail")
    /\ pc' = "pdf"
    /\ UNCHANGED <<papers, paper_assessments, filters, conn, pdf_file,
                   papers_df, filtered_df, paper_options, selected_index,
                   selected_paper_title, paper, messages, export>>

\* no file_path, or no such file in papers_dir: no download is offered
NoPdf ==
    /\ pc = "pdf"
    /\ pc' = "export"
    /\ UNCHANGED <<papers, paper_assessments, filters, conn, pdf_file,
                   papers_df, filtered_df, paper_options, selected_index,
                   selected_paper_title, paper, metrics, messages, trace,
                   export>>

\* with open(full_path, "rb") as pdf_file
OpenPdf ==
    /\ pc = "pdf"
    /\ ~IsNa(paper[1].file_path)
    /\ pdf_file' = "open"
    /\ pc' = "reading"
    /\ UNCHANGED <<papers, paper_assessments, filters, conn, papers_df,
                   filtered_df, paper_options, selected_index,
                   selected_paper_title, paper, metrics, messages, trace,
                   export>>

\* pdf_file.read() and st.download_button inside the with block; the block
\* closes the file when it is left, normally or by an exception
ReadPdf ==
    /\ pc = "reading"
    /\ pdf_file' = "closed"
    /\ \E ok \in BOOLEAN :
          IF ok
          THEN pc' = "export" /\ UNCHANGED messages
          ELSE pc' = "raised" /\ Say("exception: pdf")
    /\ UNCHANGED <<papers, paper_assessments, filters, conn, papers_df,
                   filtered_df, paper_options, selected_index,
                   selected_paper_title, paper, metrics, trace, export>>

\* if st.button("Export Paper Details"): offer paper_<id>.csv
Export ==
    /\ pc = "export"
    /\ \E clicked \in BOOLEAN :
          IF clicked
          THEN /\ export' = <<[file_name |-> <<"paper_", paper[1].id, ".csv">>,
                               mime |-> "text/csv",
                               row |-> paper[1]]>>
               /\ Reach("export")
          ELSE UNCHANGED <<export, trace>>
    /\ pc' = "done"
    /\ UNCHANGED <<papers, paper_assessments, filters, conn, pdf_file,
                   papers_df, filtered_df, paper_options, selected_index,
                   selected_paper_title, paper, metrics, messages>>

Next ==
    \/ LoadConnectError
    \/ LoadQueryError
    \/ LoadOk
    \/ FinalizeConnection
    \/ EmptyTable
    \/ NonEmptyTable
    \/ ApplyFiltersStep
    \/ NoMatch
    \/ SelectBox
    \/ LocatePaper
    \/ DisplayDetails
    \/ NoPdf
    \/ OpenPdf
    \/ ReadPdf
    \/ Export

----------------------------------------------------------------------------
(* Initial states: the store's contents and the argument of papers_view *)

Flags == {"1", "0", NULL}
PaperTypes == {NULL, "Survey"}
PdfPath == "papers/p.pdf"

\* the assessment columns of one paper_assessments row
Assessments(flags, types, dates) ==
    [is_neurosymbolic : flags, is_development : flags,
     paper_type : types, assessment_date : dates]

NoFilter == [years |-> Absent, paper_type |-> Absent,
             focus |-> Absent, development |-> Absent]

\* one short title per paper id, none a prefix of another
TitleOf(i) == Pad(i - 1) \o <<"b">>

\* publication years 2020, 2021, 2021, ... by paper id
YearOf(i) == IF i = 1 THEN <<2020>> ELSE <<2021>>

\* titles around the truncation limit and short ones, with and without
\* the ellipsis marker inside
TitleTails ==
    {<<"a">>, <<"a", "b">>, <<"a", "b", "c">>, <<"a", ".", ".", ".", "b">>}
Titles ==
    TitleTails
      \cup {Pad(TitleLimit - 2) \o t : t \in TitleTails \cup {<<>>}}
      \cup {Pad(TitleLimit - 5) \o <<".", ".", ".", "b", "c">>}

\* the store holding papers 1..n with the given columns; cs[i] is <<>> or
\* <<assessment of paper i>>; extra is a set of assessment rows of papers
\* that are not in the store
StoreIs(n, ts, ys, fs, cs, extra) ==
    /\ papers = [i \in 1..n |->
                    [id |-> i, title |-> ts[i], publication_year |-> ys[i],
                     file_path |-> fs[i]]]
    /\ paper_assessments =
          {[paper_id         |-> i,
            is_neurosymbolic |-> cs[i][1].is_neurosymbolic,
            is_development   |-> cs[i][1].is_development,
            paper_type       |-> cs[i][1].paper_type,
            assessment_date  |-> cs[i][1].assessment_date]
             : i \in {j \in 1..n : cs[j] # <<>>}} \cup extra

Orphan(n) ==
    [paper_id |-> n + 1, is_neurosymbolic |-> "1", is_development |-> "1",
     paper_type |-> "Survey", assessment_date |-> <<2>>]

ViewStart ==
    /\ pc = "start"
    /\ conn = "none"
    /\ pdf_file = "none"
    /\ papers_df = <<>>
    /\ filtered_df = <<>>
    /\ paper_options = <<>>
    /\ selected_index = 0
    /\ selected_paper_title = <<>>
    /\ paper = <<>>
    /\ metrics = <<>>
    /\ messages = <<>>
    /\ trace = <<>>
    /\ export = <<>>

Optional(S) == {<<>>} \cup {<<x>> : x \in S}

\* filter specs papers_view is activated with
ViewFilters ==
    {<<>>, <<NoFilter>>,
     <<[NoFilter EXCEPT !.years = <<{}>>, !.paper_type = <<"All">>]>>,
     <<[NoFilter EXCEPT !.focus = <<"Neurosymbolic">>]>>,
     <<[NoFilter EXCEPT !.paper_type = <<"Survey">>, !.development = <<"No">>]>>}

\* one activation of papers_view over stores with any flags, whose papers
\* all have a PDF recorded or all have none
Init ==
    /\ \E n \in 0..MaxPapers :
          \E f \in {NULL, PdfPath},
             cs \in [1..n -> Optional(Assessments(Flags, {"Survey"}, {<<1>>}))] :
                StoreIs(n, [i \in 1..n |-> TitleOf(i)],
                        [i \in 1..n |-> YearOf(i)],
                        [i \in 1..n |-> f], cs, {})
    /\ filters \in ViewFilters
    /\ ViewStart

Spec == Init /\ [][Next]_vars

\* stores that vary every column the query and the filters read, each
\* with one assessment row of a paper that is not in the store
InitColumns ==
    /\ \E n \in 0..MaxPapers :
          \E cs \in [1..n -> Optional(Assessments(Flags, PaperTypes, {<<1>>}))] :
                StoreIs(n, [i \in 1..n |-> TitleOf(i)],
                        [i \in 1..n |-> YearOf(i)],
                        [i \in 1..n |-> NULL], cs, {Orphan(n)})
    /\ filters \in {<<[NoFilter EXCEPT !.years = <<{}>>, !.paper_type = <<"All">>]>>,
                    <<[NoFilter EXCEPT !.years = <<{2021}>>, !.development = <<"No">>]>>}
    /\ ViewStart

\* the statements of papers_view up to and including the filter step (the
\* runtime's finalizer, which touches conn only, is left to Next)
NextFilter ==
    \/ LoadConnectError
    \/ LoadQueryError
    \/ LoadOk
    \/ EmptyTable
    \/ NonEmptyTable
    \/ ApplyFiltersStep

SpecFilter == InitColumns /\ [][NextFilter]_vars

\* stores that vary the titles, with few assessment values
InitTitles ==
    /\ \E n \in 0..MaxPapers :
          \E ts \in [1..n -> Titles],
             fs \in [1..n -> {NULL, PdfPath}],
             cs \in [1..n -> Optional(Assessments({"1"}, {"Survey"}, {<<1>>}))] :
                StoreIs(n, ts, [i \in 1..n |-> <<2021>>], fs, cs, {})
    /\ filters \in {<<>>, <<[NoFilter EXCEPT !.focus = <<"Neurosymbolic">>]>>}
    /\ ViewStart

SpecTitles == InitTitles /\ [][Next]_vars

----------------------------------------------------------------------------
(* Properties of apply_filters, on every table load_paper_details returns *)

YearsValues == {Absent, <<{}>>, <<{2021}>>}
TypeValues == {<<"">>, <<"All">>, <<"Survey">>}
FocusValues == {<<"All">>, <<"Neurosymbolic">>, <<"Unassessed/Other">>}
DevValues == {<<"All">>, <<"Yes">>, <<"No">>}

FilterSpecs ==
    [years : YearsValues, paper_type : TypeValues,
     focus : FocusValues, development : DevValues]

Dims == {"years", "paper_type", "focus", "development"}

Values(d) ==
    CASE d = "years" -> YearsValues
      [] d = "paper_type" -> TypeValues
      [] d = "focus" -> FocusValues
      [] OTHER -> DevValues

Rows(df) == {df[i] : i \in 1..Len(df)}

\* C3: filtering by one dimension and then by another gives the same
\* table (same rows, same order) as filtering by both at once, in either
\* order of the two dimensions and for any values.
ConjunctiveLaw ==
    pc = "loaded" =>
        \A d1, d2 \in Dims : d1 # d2 =>
            \A v1 \in Values(d1), v2 \in Values(d2) :
                LET one  == [NoFilter EXCEPT ![d1] = v1]
                    two  == [NoFilter EXCEPT ![d2] = v2]
                    both == [NoFilter EXCEPT ![d1] = v1, ![d2] = v2]
                    together == apply_filters(papers_df, both).ret
                IN  /\ apply_filters(apply_filters(papers_df, one).ret, two).ret
                          = together
                    /\ apply_filters(apply_filters(papers_df, two).ret, one).ret
                          = together

\* two dimensions that each drop a different row of a loaded table
ConjunctiveCase ==
    /\ pc = "loaded"
    /\ LET y == [NoFilter EXCEPT !.years = <<{2021}>>]
           d == [NoFilter EXCEPT !.development = <<"Yes">>]
           b == [NoFilter EXCEPT !.years = <<{2021}>>, !.development = <<"Yes">>]
       IN  /\ Len(papers_df) = 2
           /\ Len(apply_filters(papers_df, y).ret) = 1
           /\ Len(apply_filters(papers_df, d).ret) = 1
           /\ apply_filters(papers_df, b).ret = <<>>

\* C4: development "Yes" keeps exactly the rows whose flag is true, "No"
\* exactly the rows whose flag is false or missing, and every row of the
\* table is in exactly one of the two results.
DevelopmentComplete ==
    pc = "loaded" =>
        LET IsTrue(r) == r.is_development = "1"
            IsFalseOrMissing(r) == r.is_development \in {"0", "None", "NaN"}
            yes == apply_filters(papers_df,
                       [NoFilter EXCEPT !.development = <<"Yes">>]).ret
            no  == apply_filters(papers_df,
                       [NoFilter EXCEPT !.development = <<"No">>]).ret
        IN  /\ yes = SelectSeq(papers_df, IsTrue)
            /\ no = SelectSeq(papers_df, IsFalseOrMissing)
            /\ Rows(yes) \cap Rows(no) = {}
            /\ Rows(yes) \cup Rows(no) = Rows(papers_df)

\* a loaded table with a development paper and one whose flag is missing
DevelopmentCase ==
    /\ pc = "loaded"
    /\ \E i, j \in 1..Len(papers_df) :
          /\ papers_df[i].is_development = "1"
          /\ papers_df[j].is_development = "NaN"
          /\ papers_df[j] \in
                Rows(apply_filters(papers_df,
                        [NoFilter EXCEPT !.development = <<"No">>]).ret)

IdentitySpecs ==
    [years : {Absent, <<{}>>}, paper_type : {Absent, <<"All">>},
     focus : {Absent, <<"All">>}, development : {Absent, <<"All">>}]

\* C7: a spec whose dimensions are all absent, empty (years) or "All"
\* returns the input table unchanged; so does the empty spec.
IdentityLaw ==
    /\ pc = "loaded" =>
          \A f \in IdentitySpecs : apply_filters(papers_df, f).ret = papers_df
    /\ (pc = "filtered" /\ TruthyFilters(filters) /\ filters[1] \in IdentitySpecs)
          => filtered_df = papers_df

\* papers_view called apply_filters with an empty years list and type "All"
IdentityCase ==
    /\ pc = "filtered"
    /\ TruthyFilters(filters)
    /\ filters[1].years = <<{}>>
    /\ filters[1].paper_type = <<"All">>
    /\ Len(papers_df) >= 2
    /\ filtered_df = papers_df

\* C9: a call of apply_filters leaves its input table as it was, and a
\* second call with the same table and spec returns an equal table.
NoEffectOnInput ==
    /\ pc = "loaded" =>
          \A f \in FilterSpecs :
              LET first  == apply_filters(papers_df, f)
                  second == apply_filters(first.df, f)
              IN  first.df = papers_df /\ second.ret = first.ret
    /\ pc = "filtered" =>
          papers_df \in load_paper_details(papers, paper_assessments)

\* papers_view called apply_filters and the call dropped a row
NoEffectCase ==
    /\ pc = "filtered"
    /\ TruthyFilters(filters)
    /\ Len(filtered_df) < Len(papers_df)

----------------------------------------------------------------------------
(* The derived status *)

\* C5: every loaded row has one of the three statuses; Unassessed exactly
\* when the paper has no assessment row, Neurosymbolic exactly when it has
\* one whose neurosymbolic flag is true, Other in every remaining case.
StatusTotality ==
    pc = "loaded" =>
        \A i \in 1..Len(papers_df) :
            LET r == papers_df[i]
                m == {a \in paper_assessments : a.paper_id = r.id}
            IN  /\ r.assessment_status \in {"Unassessed", "Neurosymbolic", "Other"}
                /\ r.assessment_status = "Unassessed" <=> m = {}
                /\ r.assessment_status = "Neurosymbolic" <=>
                      \E a \in m : a.is_neurosymbolic = "1"
                /\ r.assessment_status = "Other" <=>
                      (m # {} /\ \A a \in m : a.is_neurosymbolic \in {"0", NULL})

\* a loaded table with an unassessed paper and an assessed one whose
\* neurosymbolic flag is missing
StatusCase ==
    /\ pc = "loaded"
    /\ \E i, j \in 1..Len(papers_df) :
          /\ papers_df[i].assessment_status = "Unassessed"
          /\ papers_df[j].assessment_status = "Other"
          /\ \E a \in paper_assessments :
                a.paper_id = papers_df[j].id /\ a.is_neurosymbolic = NULL

----------------------------------------------------------------------------
(* The control flow of papers_view *)

Exited == pc \in {"stopped", "returned", "raised", "done"}

Reached(step) == \E i \in 1..Len(trace) : trace[i] = step

Count(seq, S) == Cardinality({i \in 1..Len(seq) : seq[i] \in S})

EmptyWarnings == {"warning: no papers found", "warning: no papers match"}

LoadFailures == {"error: database", "exception: load"}

NothingRendered ==
    /\ ~Reached("select") /\ ~Reached("detail") /\ ~Reached("export")
    /\ paper = <<>> /\ metrics = <<>> /\ export = <<>>

\* C6: selection, detail rendering and export are reached only after a
\* successful load of a non-empty table whose filtered table is non-empty;
\* a failed load surfaces the error and halts with no later step; an empty
\* loaded or filtered table reports its message once and the run stops
\* with no row selected or rendered.
GuardedRendering ==
    /\ (Reached("select") \/ Reached("detail") \/ Reached("export")) =>
          /\ Reached("load") /\ Reached("filter")
          /\ papers_df # <<>> /\ filtered_df # <<>>
          /\ Count(messages, LoadFailures \cup EmptyWarnings) = 0
    /\ (pc # "start" /\ ~Reached("load")) =>
          /\ Exited
          /\ Len(messages) = 1 /\ messages[1] \in LoadFailures
          /\ ~Reached("filter") /\ NothingRendered
    /\ (Reached("load") /\ pc # "loaded" /\ papers_df = <<>>) =>
          /\ pc = "stopped"
          /\ messages = <<"warning: no papers found">>
          /\ ~Reached("filter") /\ NothingRendered
    /\ (Reached("filter") /\ pc # "filtered" /\ filtered_df = <<>>) =>
          /\ pc = "returned"
          /\ Count(messages, EmptyWarnings) = 1
          /\ messages[Len(messages)] = "warning: no papers match"
          /\ NothingRendered

\* a run that loaded papers, filtered them all away and returned
GuardedCase ==
    /\ pc = "returned"
    /\ papers_df # <<>>
    /\ filtered_df = <<>>
    /\ messages = <<"info: showing n of m", "warning: no papers match">>

\* C2: when an activation has ended, by any exit, neither the connection
\* nor the PDF file handle it opened is still open.
ReleasedOnExit == Exited => (conn # "open" /\ pdf_file # "open")

\* C10: a metric shows "Yes" only for a flag that is exactly true; a false
\* or missing flag is shown as "No".
MetricsFaithful ==
    metrics # <<>> =>
        /\ metrics[1].neurosymbolic = "Yes" <=> paper[1].is_neurosymbolic = "1"
        /\ metrics[1].development = "Yes" <=> paper[1].is_development = "1"

----------------------------------------------------------------------------
(* The selector *)

Prefix(title) ==
    SubSeq(title, 1, IF Len(title) > TitleLimit THEN TitleLimit ELSE Len(title))

UniquePrefixes(df) ==
    \A i, j \in 1..Len(df) : i # j => Prefix(df[i].title) # Prefix(df[j].title)

\* C1: in a filtered table whose titles have pairwise distinct
\* first-100-character prefixes, selecting on the label of a row returns
\* that row.
SelectorRoundtrip ==
    (pc = "located" /\ UniquePrefixes(filtered_df))
        => paper = <<filtered_df[selected_index]>>

\* C8: the label of a row whose title has exactly 100 characters carries no
\* ellipsis marker, and the selector recovers that row from it.  Stated for
\* tables with pairwise distinct prefixes, where no two rows are ambiguous.
ExactLimitRecovered ==
    (pc = "located" /\ UniquePrefixes(filtered_df)
        /\ Len(filtered_df[selected_index].title) = TitleLimit)
      => /\ selected_paper_title =
               <<"[">> \o StatusChars(filtered_df[selected_index].assessment_status)
                  \o StatusClose \o filtered_df[selected_index].title
         /\ paper = <<filtered_df[selected_index]>>

====
